---- MODULE Spec2Model ----
(***************************************************************************)
(* Model of the LINE chatbot Lambda handlers:                              *)
(*   lambda_code/lambda_function_dynamo.py  (history kept in DynamoDB)     *)
(*   lambda_code/lambda_function.py         (no history)                   *)
(*                                                                         *)
(* Each invocation of lambda_handler is a process whose steps are the      *)
(* handler's external calls (table.query, bedrock.invoke_model, the LINE   *)
(* reply POST, table.put_item); the purely local code between two calls    *)
(* belongs to the step of the call before it.  The DynamoDB table, the     *)
(* wall clock and the TTL sweeper are the environment.                     *)
(*                                                                         *)
(* Encoding of Python values:                                              *)
(*   - a text is a sequence of one-character strings; <<>> is "";          *)
(*   - NoText is the Python None where a text is expected;                 *)
(*   - an identity (userId, replyToken, ...) is a string, "" is the empty  *)
(*     string and None the Python None;                                    *)
(*   - an optional dict (LastEvaluatedKey) is <<>> or a one-element        *)
(*     sequence.                                                           *)
(***************************************************************************)
EXTENDS Integers, Sequences, FiniteSets, TLC

VARIABLES
    clock,      \* time.time() in milliseconds
    store,      \* the DynamoDB table: a set of items, (pk, sk) is the primary key
    pc,         \* pc[i]: where invocation i stands in lambda_handler
    frame,      \* frame[i]: the local variables of invocation i
    response,   \* response[i]: what lambda_handler returned
    calls,      \* calls[i]: external calls made by the current run of invocation i
    hist,       \* hist[i]: history of the current run (stages passed, keys written)
    log,        \* every put_item that succeeded, in order
    expired,    \* whether the TTL sweeper has removed an item
    started     \* number of events received so far

vars == <<clock, store, pc, frame, response, calls, hist, log, expired, started>>

(***************************************************************************)
(* Bounds of the model                                                     *)
(***************************************************************************)
MaxEvents == 2
MaxWideEvents == 1
MaxEmptyPages == 1
MaxSeeded == 2

\* the readings of the clock the model visits: three successive milliseconds,
\* and two milliseconds two seconds later (when the items written in the first
\* second are past their TTL)
Instants == {0, 1, 2, 2000, 2001}

Invocations == {1, 2}

(***************************************************************************)
(* Settings                                                                *)
(***************************************************************************)
TTL_KEEP_SECONDS == 1
LINE_MAX == 5000
MsPerSecond == 1000

None == "<None>"
NoText == <<"<None>">>
Placeholder == <<"(no response)">>
Whitespace == {" ", "\n"}

(***************************************************************************)
(* Python helpers                                                          *)
(***************************************************************************)
\* truthiness of an identity (str or None)
Truthy(x) == x # None /\ x # ""

\* a or b, for identities
Or(a, b) == IF Truthy(a) THEN a ELSE b

\* (t or ""), for texts
TextOrEmpty(t) == IF t = NoText THEN <<>> ELSE t

RECURSIVE LStrip(_)
LStrip(t) == IF t # <<>> /\ Head(t) \in Whitespace THEN LStrip(Tail(t)) ELSE t

RECURSIVE RStrip(_)
RStrip(t) ==
    IF t # <<>> /\ t[Len(t)] \in Whitespace THEN RStrip(SubSeq(t, 1, Len(t) - 1)) ELSE t

\* str.strip()
Strip(t) == RStrip(LStrip(t))

\* s[:n]
Take(s, n) == SubSeq(s, 1, IF Len(s) < n THEN Len(s) ELSE n)

(***************************************************************************)
(* Clock                                                                   *)
(***************************************************************************)
\* _now_ms: int(time.time() * 1000)
now_ms == clock

\* _now_s: int(time.time())
now_s == clock \div MsPerSecond

\* _ttl_value(): now_s + TTL_KEEP_SECONDS
ttl_value == now_s + TTL_KEEP_SECONDS

(***************************************************************************)
(* The DynamoDB table                                                      *)
(***************************************************************************)
\* the item _save_message builds
NewItem(pk, role, text) ==
    [pk |-> pk, sk |-> now_ms, role |-> role, text |-> text, ttl |-> ttl_value]

\* table.put_item(Item=item): an item with the same primary key is replaced
PutItem(tbl, item) ==
    {x \in tbl : ~(x.pk = item.pk /\ x.sk = item.sk)} \cup {item}

\* mutant of Partition: the key condition is dropped
PartitionAnyKey(tbl, pk) == tbl

\* the items of one partition
Partition(tbl, pk) == {x \in tbl : x.pk = pk}

\* the items of a set in ascending sort-key order (ScanIndexForward=True)
RECURSIVE SortBySk(_)
SortBySk(S) ==
    IF S = {} THEN <<>>
    ELSE LET m == CHOOSE x \in S : \A y \in S : x.sk <= y.sk
         IN <<m>> \o SortBySk(S \ {m})

KeyOf(item) == [pk |-> item.pk, sk |-> item.sk]

\* the items of partition pk that follow the ExclusiveStartKey, in order
Remaining(tbl, pk, esk) ==
    SortBySk({x \in Partition(tbl, pk) : esk = <<>> \/ x.sk > esk[1].sk})

\* table.query(KeyConditionExpression=Key("pk").eq(pk), ScanIndexForward=True
\*             [, ExclusiveStartKey=esk]): every response the table may give.
\* The table returns the first n remaining items, for an n of its choosing.
\* It must return a LastEvaluatedKey when items remain; it may return one when
\* the page ends exactly at the last item; a page that evaluated no item hands
\* the start key back.
QueryResponses(tbl, pk, esk) ==
    LET rem == Remaining(tbl, pk, esk) IN
    { [Items |-> SubSeq(rem, 1, n), LastEvaluatedKey |-> c] :
        <<n, c>> \in
            { <<n, <<>> >> : n \in {Len(rem)} }
            \cup { <<n, <<KeyOf(rem[n])>> >> : n \in 1..Len(rem) }
            \cup { <<n, esk>> : n \in (IF esk = <<>> THEN {} ELSE {0}) } }

\* line 157: {"role": i.get("role", "user"), "text": i.get("text", "")}; an
\* item without the attribute has role None, text NoText
Turn(item) ==
    [role |-> IF item.role = None THEN "user" ELSE item.role,
     text |-> IF item.text = NoText THEN <<>> ELSE item.text]

Project(items) == [k \in 1..Len(items) |-> Turn(items[k])]

(***************************************************************************)
(* _to_anthropic_messages and the message list of lambda_handler           *)
(***************************************************************************)
Message(role, text) ==
    [role |-> role, content |-> <<[type |-> "text", text |-> text]>>]

RECURSIVE to_anthropic_messages(_)
to_anthropic_messages(history) ==
    IF history = <<>> THEN <<>>
    ELSE LET turn == Head(history)
             role == IF turn.role = None \/ turn.role = "" THEN "user" ELSE turn.role
             text == TextOrEmpty(turn.text)
         IN  IF text = <<>> THEN to_anthropic_messages(Tail(history))
             ELSE <<Message(IF role \in {"user", "assistant"} THEN role ELSE "user", text)>>
                  \o to_anthropic_messages(Tail(history))

\* mutant of BuildMessages: the new user message is put first
BuildMessagesNewFirst(history_turns, user_text) ==
    <<Message("user", user_text)>> \o to_anthropic_messages(history_turns)

\* lines 49-50: messages = _to_anthropic_messages(history_turns); messages.append(user)
BuildMessages(history_turns, user_text) ==
    Append(to_anthropic_messages(history_turns), Message("user", user_text))

(***************************************************************************)
(* _ask_bedrock: the text taken from the model's response body             *)
(* data = [has_content, content]; an element of content is                 *)
(* [is_dict, text], text = NoText when the element has no "text".          *)
(***************************************************************************)
Content(data) == IF data.has_content THEN data.content ELSE <<>>

\* lambda_function_dynamo.py: content[0].get("text") or placeholder
ask_bedrock_dynamo(data) ==
    LET content == Content(data) IN
    IF content # <<>> /\ content[1].is_dict
    THEN (IF content[1].text = NoText \/ content[1].text = <<>>
          THEN Placeholder ELSE content[1].text)
    ELSE Placeholder

\* lambda_function.py: content[0].get("text") if ... else placeholder
ask_bedrock_plain(data) ==
    LET content == Content(data) IN
    IF content # <<>> /\ content[1].is_dict THEN content[1].text ELSE Placeholder

(***************************************************************************)
(* Responses of lambda_handler                                             *)
(***************************************************************************)
NoResponse == [statusCode |-> 0, body |-> "-"]
ok(message) == [statusCode |-> 200, body |-> message]
Error500 == [statusCode |-> 500, body |-> "error"]

(***************************************************************************)
(* Inbound events (the first element of body["events"])                    *)
(***************************************************************************)
\* (body.get("events") or [None])[0] or {}: every field reads as None
NoEvent ==
    [replyToken |-> None, text |-> NoText, userId |-> None, groupId |-> None, roomId |-> None]

\* the reply token LINE issues for the n-th event: unique per event
ReplyTokens == <<"rt1", "rt2", "rt3", "rt4", "rt5", "rt6">>

EventsOver(tokens, texts, users, groups, rooms) ==
    { [replyToken |-> t, text |-> x, userId |-> u, groupId |-> g, roomId |-> r] :
        t \in tokens, x \in texts, u \in users, g \in groups, r \in rooms }

\* line 35 (26): ev.get("replyToken")
reply_token_of(ev) == ev.replyToken

\* mutant of user_text_of: the text is not stripped
user_text_unstripped(ev) == TextOrEmpty(ev.text)

\* line 36 (27): ((ev.get("message") or {}).get("text") or "").strip()
user_text_of(ev) == Strip(TextOrEmpty(ev.text))

\* mutant of conv_pk_of: the group identity is tried before the user identity
conv_pk_group_first(ev) == Or(ev.groupId, Or(ev.userId, Or(ev.roomId, ev.replyToken)))

\* lines 39-42: user_id or group_id or room_id or reply_token
conv_pk_of(ev) == Or(ev.userId, Or(ev.groupId, Or(ev.roomId, ev.replyToken)))

(***************************************************************************)
(* State of one invocation                                                 *)
(***************************************************************************)
EmptyFrame ==
    [ variant |-> "dynamo", ev |-> NoEvent,
      reply_token |-> None, user_text |-> <<>>, conv_pk |-> None,
      items |-> <<>>, last_evaluated_key |-> <<>>,
      history_turns |-> <<>>, messages |-> <<>>, ai_text |-> <<>> ]

NoCalls == [load |-> 0, query |-> 0, model |-> 0, reply |-> 0, put |-> 0]

EmptyHist ==
    [ event |-> 0,            \* the number of the event being handled
      stages |-> <<>>,        \* the stages completed, in order
      failed_at |-> "",       \* the stage at which an exception was raised
      body |-> <<>>,          \* the response body invoke_model returned, if any
      delivered |-> <<>>,     \* the texts LINE accepted as replies
      wrote |-> <<>>,         \* the items put_item stored, in order
      prior |-> {},           \* the partition as it was before the first append
      empty_pages |-> 0,      \* empty pages with a cursor seen by the current load
      dirty |-> FALSE,        \* the partition changed while the load was running
      appended |-> FALSE,     \* an item was put between two page queries of the load
      removed |-> FALSE,      \* an item was removed between two page queries of the load
      stable |-> {},          \* the items stored since the running load began
      prev |-> <<>> ]         \* the result of the last load of this instance, while
                              \* the partition is as it was when that load began

Init ==
    /\ clock = 0
    /\ store = {}
    /\ pc = [i \in Invocations |-> "idle"]
    /\ frame = [i \in Invocations |-> EmptyFrame]
    /\ response = [i \in Invocations |-> NoResponse]
    /\ calls = [i \in Invocations |-> NoCalls]
    /\ hist = [i \in Invocations |-> EmptyHist]
    /\ log = <<>>
    /\ expired = FALSE
    /\ started = 0

\* items another writer left in the partition of U1 before the first event:
\* the role and the text of an item may be any string, or be missing
SeedKinds ==
    { [role |-> "assistant", text |-> <<"y", "o">>],
      [role |-> "system", text |-> <<"y", "o">>],
      [role |-> None, text |-> <<"y", "o">>],
      [role |-> "", text |-> <<>>],
      [role |-> "user", text |-> NoText] }

Seeds == UNION { [1..n -> SeedKinds] : n \in 0..MaxSeeded }

\* the k-th of n seeded items was written n + 1 - k milliseconds before the
\* first reading of the clock, with the TTL of its time of writing
SeedItems(seed) ==
    { [pk |-> "U1", sk |-> k - Len(seed) - 1, role |-> seed[k].role,
       text |-> seed[k].text,
       ttl |-> ((k - Len(seed) - 1) \div MsPerSecond) + TTL_KEEP_SECONDS]
      : k \in 1..Len(seed) }

InitSeeded ==
    /\ clock = 0
    /\ \E seed \in Seeds : store = SeedItems(seed)
    /\ pc = [i \in Invocations |-> "idle"]
    /\ frame = [i \in Invocations |-> EmptyFrame]
    /\ response = [i \in Invocations |-> NoResponse]
    /\ calls = [i \in Invocations |-> NoCalls]
    /\ hist = [i \in Invocations |-> EmptyHist]
    /\ log = <<>>
    /\ expired = FALSE
    /\ started = 0

\* the partition of U1 holds one exchange when the first event arrives
InitStored ==
    /\ clock = 0
    /\ store = SeedItems(<<[role |-> "user", text |-> <<"y", "o">>],
                           [role |-> "assistant", text |-> <<"y", "o">>]>>)
    /\ pc = [i \in Invocations |-> "idle"]
    /\ frame = [i \in Invocations |-> EmptyFrame]
    /\ response = [i \in Invocations |-> NoResponse]
    /\ calls = [i \in Invocations |-> NoCalls]
    /\ hist = [i \in Invocations |-> EmptyHist]
    /\ log = <<>>
    /\ expired = FALSE
    /\ started = 0

(***************************************************************************)
(* Environment: the clock and the TTL sweeper                              *)
(***************************************************************************)
\* partition pk changes, the table becomes tbl: other invocations whose load
\* of the partition is running see it change
MarkDirty(h, pk, writer, tbl) ==
    [j \in Invocations |->
        LET loading == j # writer /\ pc[j] = "load" /\ frame[j].conv_pk = pk
            paging == loading /\ calls[j].query > 0
        IN  [h[j] EXCEPT
                !.dirty = @ \/ loading,
                !.appended = @ \/ (paging /\ ~(tbl \subseteq store)),
                !.removed = @ \/ (paging /\ ~(store \subseteq tbl)),
                !.stable = IF loading THEN @ \cap tbl ELSE @,
                !.prev = IF @ # <<>> /\ @[1].pk = pk THEN <<>> ELSE @]]

\* time passes: the clock moves to a later instant
Tick ==
    /\ \E t \in Instants : t > clock /\ clock' = t
    /\ UNCHANGED <<store, pc, frame, response, calls, hist, log, expired, started>>

\* DynamoDB TTL: an item whose TTL attribute is in the past may be deleted
Expire ==
    \E x \in store :
        /\ x.ttl < now_s
        /\ store' = store \ {x}
        /\ expired' = TRUE
        /\ hist' = MarkDirty(hist, x.pk, 0, store \ {x})
        /\ UNCHANGED <<clock, pc, frame, response, calls, log, started>>

(***************************************************************************)
(* lambda_handler                                                          *)
(***************************************************************************)
Stage(h, name) == [h EXCEPT !.stages = Append(@, name)]

\* mutants of Pipeline: the user turn is stored before the model is called;
\* both turns are stored before the reply is sent; the reply is sent before the
\* model is called; the assistant turn is stored before the user turn
PipelineUserTurnFirst(variant) ==
    <<"load", "save_user", "model", "reply", "save_assistant">>

PipelinePersistFirst(variant) ==
    <<"load", "model", "save_user", "save_assistant", "reply">>

PipelineReplyFirst(variant) ==
    <<"load", "reply", "model", "save_user", "save_assistant">>

PipelineAssistantFirst(variant) ==
    <<"load", "model", "reply", "save_assistant", "save_user">>

\* the external calls of lambda_handler in program order: lines 46, 53, 56, 59
\* and 60 of lambda_function_dynamo.py; lines 32 and 33 of lambda_function.py
Pipeline(variant) ==
    IF variant = "dynamo"
    THEN <<"load", "model", "reply", "save_user", "save_assistant">>
    ELSE <<"model", "reply">>

\* the stage that follows `stage`; "done" after the last one
After(variant, stage) ==
    LET p == Pipeline(variant)
        k == CHOOSE n \in 1..Len(p) : p[n] = stage
    IN IF k = Len(p) THEN "done" ELSE p[k + 1]

\* the stage's call returned: go on, or return "ok" (line 62; line 34)
Advance(i, stage) ==
    LET next == After(frame[i].variant, stage) IN
    /\ pc' = [pc EXCEPT ![i] = next]
    /\ response' = [response EXCEPT ![i] = IF next = "done" THEN ok("ok") ELSE @]

\* mutant of Failed: the exception leaves the handler, no response is returned
FailedUncaught(i) ==
    /\ pc' = [pc EXCEPT ![i] = "done"]
    /\ response' = [response EXCEPT ![i] = NoResponse]

\* the except branch: log and return status 500
Failed(i) ==
    /\ pc' = [pc EXCEPT ![i] = "done"]
    /\ response' = [response EXCEPT ![i] = Error500]

\* the runtime hands an event to an instance that is not running the handler
CanReceive(i, max) == pc[i] \in {"idle", "done"} /\ started < max

\* mutant of FreshFrame: the list of loaded items outlives the call
FrameKeepsItems(f) == [EmptyFrame EXCEPT !.items = f.items]

\* the locals of a new call of lambda_handler and of the functions it calls
\* (lines 138-139: items = [], last_evaluated_key = None); nothing of the
\* frame f of the instance's previous call is carried over
FreshFrame(f) == EmptyFrame

\* what the instance keeps from one event to the next: no program state
NextHist(h, n) == [EmptyHist EXCEPT !.event = n, !.prev = h.prev]

\* lines 32-42: parse the event and resolve the conversation key
\* (lambda_function.py, lines 24-27, resolves no key)
Receive(i, ev, variant) ==
    /\ started' = started + 1
    /\ frame' = [frame EXCEPT ![i] =
            [FreshFrame(frame[i]) EXCEPT !.variant = variant, !.ev = ev,
                               !.reply_token = reply_token_of(ev),
                               !.user_text = user_text_of(ev),
                               !.conv_pk = IF variant = "dynamo"
                                           THEN conv_pk_of(ev) ELSE None]]
    /\ calls' = [calls EXCEPT ![i] = NoCalls]
    /\ hist' = [hist EXCEPT ![i] = Stage(NextHist(hist[i], started + 1), "parse")]
    /\ pc' = [pc EXCEPT ![i] = "parsed"]
    /\ response' = [response EXCEPT ![i] = NoResponse]
    /\ UNCHANGED <<clock, store, log, expired>>

\* line 32 (24): the body of the event is not JSON, json.loads raises and the
\* except branch returns status 500
ReceiveUnparsable(i, variant) ==
    /\ started' = started + 1
    /\ frame' = [frame EXCEPT ![i] = [FreshFrame(frame[i]) EXCEPT !.variant = variant]]
    /\ calls' = [calls EXCEPT ![i] = NoCalls]
    /\ hist' = [hist EXCEPT ![i] =
            [NextHist(hist[i], started + 1) EXCEPT !.failed_at = "parse"]]
    /\ Failed(i)
    /\ UNCHANGED <<clock, store, log, expired>>

\* line 44: if not reply_token or not user_text
NoInput(f) == ~Truthy(f.reply_token) \/ f.user_text = <<>>

\* lines 44-46 (28-29): return "no text", or enter the first stage of the
\* variant; ev and source are not read after this point
Guard(i) ==
    /\ pc[i] = "parsed"
    /\ frame' = [frame EXCEPT ![i].ev = NoEvent]
    /\ pc' = [pc EXCEPT ![i] =
            IF NoInput(frame[i]) THEN "done"
            ELSE Pipeline(frame[i].variant)[1]]
    /\ response' = [response EXCEPT ![i] =
            IF NoInput(frame[i]) THEN ok("no text") ELSE NoResponse]
    /\ hist' = [hist EXCEPT ![i].stable =
            IF ~NoInput(frame[i]) /\ frame[i].variant = "dynamo"
            THEN Partition(store, frame[i].conv_pk) ELSE @]
    /\ UNCHANGED <<clock, store, calls, log, expired, started>>

\* mutant of extend: items = batch
extend_overwrite(items, batch) == batch

\* line 150: items.extend(batch)
extend(items, batch) == items \o batch

\* mutant of exclusive_start_key: the cursor is never passed on
exclusive_start_key_dropped(last_evaluated_key) == <<>>

\* lines 146-147: if last_evaluated_key: kwargs["ExclusiveStartKey"] = last_evaluated_key
exclusive_start_key(last_evaluated_key) == last_evaluated_key

\* mutant of more_pages: the loop goes on as long as pages bring items
more_pages_while_items(resp) == resp.Items # <<>>

\* lines 152-154: last_evaluated_key = resp.get("LastEvaluatedKey");
\* if not last_evaluated_key: break
more_pages(resp) == resp.LastEvaluatedKey # <<>>

\* the record of a load of partition pk that returned items: kept if the
\* partition did not change while the load ran, with the number of loads in a
\* row that saw the partition in this state
LoadResult(h, pk, items) ==
    IF h.dirty THEN <<>>
    ELSE <<[pk |-> pk, items |-> items,
            n |-> IF h.prev # <<>> /\ h.prev[1].pk = pk THEN h.prev[1].n + 1 ELSE 1]>>

\* lines 140-154: one pass of the while loop of _load_all_history; when the
\* response carries no LastEvaluatedKey the loop ends and lines 157, 49, 50 run
Query(i) ==
    /\ pc[i] = "load"
    /\ \E resp \in QueryResponses(store, frame[i].conv_pk,
                                   exclusive_start_key(frame[i].last_evaluated_key)) :
        LET f == frame[i]
            empty == resp.Items = <<>> /\ resp.LastEvaluatedKey # <<>>
            items == extend(f.items, resp.Items)
            last == ~more_pages(resp)
            history_turns == Project(items)
        IN
        /\ empty => hist[i].empty_pages < MaxEmptyPages
        /\ frame' = [frame EXCEPT ![i] =
                IF last
                THEN [f EXCEPT !.items = items, !.last_evaluated_key = <<>>,
                               !.history_turns = history_turns,
                               !.messages = BuildMessages(history_turns, f.user_text)]
                ELSE [f EXCEPT !.items = items,
                               !.last_evaluated_key = resp.LastEvaluatedKey]]
        /\ calls' = [calls EXCEPT ![i].query = @ + 1,
                                  ![i].load = IF f.last_evaluated_key = <<>>
                                              THEN @ + 1 ELSE @]
        /\ hist' = [hist EXCEPT ![i] =
                IF last
                THEN Stage(Stage([@ EXCEPT !.stable = {},
                                           !.prev = LoadResult(hist[i], f.conv_pk, items)],
                                 "load"), "assemble")
                ELSE [@ EXCEPT !.empty_pages = IF empty THEN @ + 1 ELSE @]]
        /\ IF last THEN Advance(i, "load") ELSE UNCHANGED <<pc, response>>
    /\ UNCHANGED <<clock, store, log, expired, started>>

\* lines 53 and 72-88 (lambda_function.py: 32 and 43-59): the model answered
\* with the body `data`.  In lambda_function.py the answer may be None, and
\* ai_text[:LINE_MAX] on line 33 then raises before the reply is sent.
AskBedrock(i, data) ==
    LET ai_text == IF frame[i].variant = "dynamo"
                   THEN ask_bedrock_dynamo(data) ELSE ask_bedrock_plain(data)
    IN
    /\ pc[i] = "model"
    /\ frame' = [frame EXCEPT ![i].ai_text = ai_text]
    /\ calls' = [calls EXCEPT ![i].model = @ + 1]
    /\ hist' = [hist EXCEPT ![i] =
            IF ai_text = NoText
            THEN [@ EXCEPT !.failed_at = "slice", !.body = <<data>>]
            ELSE Stage([@ EXCEPT !.body = <<data>>], "model")]
    /\ IF ai_text = NoText
       THEN Failed(i)
       ELSE Advance(i, "model")
    /\ UNCHANGED <<clock, store, log, expired, started>>

\* the text handed to _reply_line: line 56, and line 33 of lambda_function.py
ReplyText(f) == IF f.variant = "dynamo" THEN f.ai_text ELSE Take(f.ai_text, LINE_MAX)

\* lines 56 and 91-106: the reply POST succeeded
ReplyLine(i) ==
    /\ pc[i] = "reply"
    /\ calls' = [calls EXCEPT ![i].reply = @ + 1]
    /\ hist' = [hist EXCEPT ![i] =
            Stage([@ EXCEPT !.delivered = Append(@, ReplyText(frame[i]))], "reply")]
    /\ Advance(i, "reply")
    /\ UNCHANGED <<clock, store, frame, log, expired, started>>

\* _save_message(pk, role, text), lines 120-130, as called by invocation i
save_message(i, pk, role, text) ==
    LET item == NewItem(pk, role, text) IN
    /\ store' = PutItem(store, item)
    /\ log' = Append(log, [item |-> item, event |-> hist[i].event])
    /\ calls' = [calls EXCEPT ![i].put = @ + 1]
    /\ hist' = [MarkDirty(hist, pk, i, PutItem(store, item)) EXCEPT ![i] =
            Stage([@ EXCEPT !.wrote = Append(@, item),
                            !.prior = IF hist[i].wrote = <<>>
                                      THEN Partition(store, pk) ELSE @],
                  IF role = "user" THEN "save_user" ELSE "save_assistant")]

\* mutant of SaveUser: the appends of an invocation wait until no other
\* invocation is between its load and its last append
SaveUserLocked(i) ==
    /\ pc[i] = "save_user"
    /\ \A j \in Invocations \ {i} :
            pc[j] \notin {"load", "model", "reply", "save_user", "save_assistant"}
    /\ save_message(i, frame[i].conv_pk, "user", frame[i].user_text)
    /\ Advance(i, "save_user")
    /\ UNCHANGED <<clock, frame, expired, started>>

\* line 59
SaveUser(i) ==
    /\ pc[i] = "save_user"
    /\ save_message(i, frame[i].conv_pk, "user", frame[i].user_text)
    /\ Advance(i, "save_user")
    /\ UNCHANGED <<clock, frame, expired, started>>

\* lines 60-62
SaveAssistant(i) ==
    /\ pc[i] = "save_assistant"
    /\ save_message(i, frame[i].conv_pk, "assistant", frame[i].ai_text)
    /\ Advance(i, "save_assistant")
    /\ UNCHANGED <<clock, frame, expired, started>>

\* the external call of the current stage raises (table.query, invoke_model,
\* urlopen, table.put_item): lines 63-69 return status 500
Raise(i) ==
    /\ pc[i] \in {"load", "model", "reply", "save_user", "save_assistant"}
    /\ calls' = [calls EXCEPT ![i] =
            CASE pc[i] = "load" ->
                    [@ EXCEPT !.query = @ + 1,
                              !.load = IF frame[i].last_evaluated_key = <<>>
                                       THEN @ + 1 ELSE @]
              [] pc[i] = "model" -> [@ EXCEPT !.model = @ + 1]
              [] pc[i] = "reply" -> [@ EXCEPT !.reply = @ + 1]
              [] OTHER -> [@ EXCEPT !.put = @ + 1]]
    /\ hist' = [hist EXCEPT ![i].failed_at = pc[i], ![i].stable = {}]
    /\ Failed(i)
    /\ UNCHANGED <<clock, store, frame, log, expired, started>>

(***************************************************************************)
(* Inputs                                                                  *)
(***************************************************************************)
Answer == <<"o", "k">>

\* response bodies of invoke_model
Body(has_content, content) == [has_content |-> has_content, content |-> content]
Element(is_dict, text) == [is_dict |-> is_dict, text |-> text]

GoodBodies == { Body(TRUE, <<Element(TRUE, Answer)>>) }

MalformedBodies ==
    { Body(FALSE, <<>>), Body(TRUE, <<>>),
      Body(TRUE, <<Element(FALSE, NoText)>>),
      Body(TRUE, <<Element(TRUE, NoText)>>),
      Body(TRUE, <<Element(TRUE, <<>>)>>) }

\* the token of the next event
NextToken == ReplyTokens[IF started < Len(ReplyTokens) THEN started + 1 ELSE 1]

\* events of one user: a clean text, or a text of whitespace only
NarrowEvents ==
    EventsOver({NextToken}, {<<"h", "i">>, <<" ">>}, {"U1"}, {None}, {None})

\* every shape of reply token and text
TextEvents ==
    EventsOver({None, "", NextToken},
               {NoText, <<>>, <<" ">>, <<"h", "i">>, <<" ", "h", "i", "\n">>},
               {"U1"}, {None}, {None})

\* every shape of source
SourceEvents ==
    EventsOver({None, NextToken}, {<<"h", "i">>},
               {None, "", "U1"}, {None, "", "G1"}, {None, "", "R1"})

WideEvents == {NoEvent} \cup TextEvents \cup SourceEvents

\* the user whose events invocation i handles when every invocation serves a
\* user of its own
UserOf(i) == IF i = 1 THEN "U1" ELSE "U2"

KeyEvents(i) == EventsOver({NextToken}, {<<"h", "i">>}, {UserOf(i)}, {None}, {None})

(***************************************************************************)
(* Specifications                                                          *)
(***************************************************************************)
\* the history-enabled handler, one event after another for one user
Next ==
    \/ Tick
    \/ Expire
    \/ CanReceive(1, MaxEvents) /\ \E ev \in NarrowEvents : Receive(1, ev, "dynamo")
    \/ Guard(1)
    \/ Query(1)
    \/ \E data \in GoodBodies : AskBedrock(1, data)
    \/ ReplyLine(1)
    \/ SaveUser(1)
    \/ SaveAssistant(1)
    \/ Raise(1)

Spec == Init /\ [][Next]_vars

\* either handler, on every shape of event and of model response; no item
\* reaches its TTL
NextWide ==
    \/ Tick
    \/ CanReceive(1, MaxWideEvents) /\
            \E ev \in WideEvents, v \in {"dynamo", "plain"} : Receive(1, ev, v)
    \/ CanReceive(1, MaxWideEvents) /\
            \E v \in {"dynamo", "plain"} : ReceiveUnparsable(1, v)
    \/ Guard(1)
    \/ Query(1)
    \/ \E data \in GoodBodies \cup MalformedBodies : AskBedrock(1, data)
    \/ ReplyLine(1)
    \/ SaveUser(1)
    \/ SaveAssistant(1)
    \/ Raise(1)

SpecWide == Init /\ [][NextWide]_vars

\* two instances of the history-enabled handler running concurrently for one
\* user, each handling one event
NextConc ==
    \/ Tick
    \/ Expire
    \/ \E i \in Invocations :
        \/ pc[i] = "idle" /\ \E ev \in NarrowEvents : Receive(i, ev, "dynamo")
        \/ Guard(i)
        \/ Query(i)
        \/ \E data \in GoodBodies : AskBedrock(i, data)
        \/ ReplyLine(i)
        \/ SaveUser(i)
        \/ SaveAssistant(i)
        \/ Raise(i)

SpecConc == Init /\ [][NextConc]_vars

\* the history-enabled handler on one event of a user whose partition already
\* holds items of any role and text, none of which expires during the event
NextSeeded ==
    \/ Tick
    \/ pc[1] = "idle" /\ \E ev \in NarrowEvents : Receive(1, ev, "dynamo")
    \/ Guard(1)
    \/ Query(1)
    \/ \E data \in GoodBodies : AskBedrock(1, data)
    \/ ReplyLine(1)
    \/ SaveUser(1)
    \/ SaveAssistant(1)
    \/ Raise(1)

SpecSeeded == InitSeeded /\ [][NextSeeded]_vars

\* two instances of the history-enabled handler running concurrently, each
\* handling one event of a different user
NextKeys ==
    \/ Tick
    \/ Expire
    \/ \E i \in Invocations :
        \/ pc[i] = "idle" /\ \E ev \in KeyEvents(i) : Receive(i, ev, "dynamo")
        \/ Guard(i)
        \/ Query(i)
        \/ \E data \in GoodBodies : AskBedrock(i, data)
        \/ ReplyLine(i)
        \/ SaveUser(i)
        \/ SaveAssistant(i)
        \/ Raise(i)

SpecKeys == Init /\ [][NextKeys]_vars

\* one instance of the history-enabled handler, one event after another for
\* a user whose partition holds one exchange that does not expire
NextReload ==
    \/ Tick
    \/ CanReceive(1, MaxEvents) /\ \E ev \in NarrowEvents : Receive(1, ev, "dynamo")
    \/ Guard(1)
    \/ Query(1)
    \/ \E data \in GoodBodies : AskBedrock(1, data)
    \/ ReplyLine(1)
    \/ SaveUser(1)
    \/ SaveAssistant(1)
    \/ Raise(1)

SpecReload == InitStored /\ [][NextReload]_vars

(***************************************************************************)
(* Properties                                                              *)
(***************************************************************************)
Running(i) == hist[i].event > 0
Dynamo(i) == Running(i) /\ frame[i].variant = "dynamo"
Completed(i) == pc[i] = "done" /\ response[i] = ok("ok")

\* a single unpaged read of partition pk: the response that holds every
\* remaining item and no LastEvaluatedKey
UnpagedRead(tbl, pk) ==
    (CHOOSE r \in QueryResponses(tbl, pk, <<>>) : r.LastEvaluatedKey = <<>>).Items

StrictlyAscending(items) ==
    \A k \in 1..Len(items) - 1 : items[k].sk < items[k + 1].sk

\* the turns appended to partition pk, in the order of the appends
AppendsTo(pk) ==
    LET of_pk(e) == e.item.pk = pk IN SelectSeq(log, of_pk)

AppendedTurns(pk) ==
    LET a == AppendsTo(pk) IN [k \in 1..Len(a) |-> Turn(a[k].item)]

\* the appends made while handling event n
AppendsOf(n) ==
    LET of_n(e) == e.event = n IN SelectSeq(log, of_n)

IsPrefix(s, t) == Len(s) <= Len(t) /\ SubSeq(t, 1, Len(s)) = s

\* C1: when a run of _load_all_history ends and the partition did not change
\* while it ran, what it returns is the single unpaged read of the partition:
\* every stored item of the key once, in strictly ascending sort-key order,
\* whatever pages the table served (empty pages with a cursor included).
C1_PagedLoadEqualsUnpagedRead ==
    [][\A i \in Invocations :
        (pc[i] = "load" /\ pc'[i] = After("dynamo", "load") /\ ~hist[i].dirty) =>
            LET pk == frame[i].conv_pk
                items == frame'[i].items
            IN  /\ items = UnpagedRead(store, pk)
                /\ StrictlyAscending(items)
                /\ {items[k] : k \in 1..Len(items)} = Partition(store, pk)
                /\ Len(items) = Cardinality(Partition(store, pk))
                /\ frame'[i].history_turns = Project(UnpagedRead(store, pk))]_vars

\* C1 witness: a load of two or more items that took three or more queries,
\* one of them an empty page with a cursor, has ended
C1_Witness ==
    \E i \in Invocations :
        /\ pc[i] = "model"
        /\ ~hist[i].dirty
        /\ calls[i].query >= 3
        /\ hist[i].empty_pages >= 1
        /\ Len(frame[i].history_turns) >= 2

\* C2: with no expiry, every turn appended is still stored as it was written
\* and each key holds as many turns as appends were made to it.
C2_AppendNeverOverwrites ==
    ~expired =>
        \A k \in 1..Len(log) :
            /\ log[k].item \in store
            /\ Cardinality(Partition(store, log[k].item.pk))
                   = Len(AppendsTo(log[k].item.pk))

\* C3: with no expiry, a load returns the turns appended to the key in the
\* exact order of the appends.
C3_LoadReturnsAppendOrder ==
    \A i \in Invocations :
        (Dynamo(i) /\ pc[i] = "model" /\ ~expired /\ ~hist[i].dirty) =>
            frame[i].history_turns = AppendedTurns(frame[i].conv_pk)

\* C4: a Completed invocation has added exactly two turns after the turns the
\* key held: the user turn with the user text, then the assistant turn with the
\* model text, with sort keys user < assistant, both above every prior one.
C4_CompletedAddsTwoOrderedTurns ==
    \A i \in Invocations :
        (Dynamo(i) /\ Completed(i) /\ ~expired) =>
            LET w == hist[i].wrote
                prior == hist[i].prior
            IN  /\ Len(w) = 2
                /\ Turn(w[1]) = [role |-> "user", text |-> frame[i].user_text]
                /\ Turn(w[2]) = [role |-> "assistant", text |-> frame[i].ai_text]
                /\ w[1].sk < w[2].sk
                /\ \A x \in prior : x.sk < w[1].sk
                /\ Partition(store, frame[i].conv_pk) = prior \cup {w[1], w[2]}

\* the event carries no reply token, or no text, or a text of whitespace only
EventLacksInput(ev) ==
    \/ ev.replyToken \in {None, ""}
    \/ ev.text = NoText
    \/ \A k \in 1..Len(ev.text) : ev.text[k] \in Whitespace

\* C5: an event with no reply token, or whose text is absent or empty after
\* trimming, ends the invocation at once in Skipped: status 200 "no text", and
\* no store read, store write, model call or reply call was made.
C5_SkipMakesNoCalls ==
    [][\A i \in Invocations :
        (pc[i] = "parsed" /\ EventLacksInput(frame[i].ev) /\ pc'[i] # "parsed") =>
            /\ pc'[i] = "done"
            /\ response'[i] = ok("no text")
            /\ calls'[i] = NoCalls
            /\ hist'[i].delivered = <<>>
            /\ hist'[i].wrote = <<>>
            /\ store' = store
            /\ log' = log]_vars

\* C5 witness: an invocation whose event had a reply token and a text of
\* whitespace only has returned "no text"
C5_Witness ==
    \E i \in Invocations :
        /\ pc[i] = "done"
        /\ response[i] = ok("no text")
        /\ frame[i].reply_token \notin {None, ""}
        /\ frame[i].user_text = <<>>

\* C6: when the model call fails the handler returns status 500, no reply
\* call is made, and no turn of the invocation is written to the store.
C6_ModelFailureLeavesNoTrace ==
    \A i \in Invocations :
        hist[i].failed_at = "model" =>
            /\ pc[i] = "done"
            /\ response[i] = Error500
            /\ calls[i].reply = 0
            /\ hist[i].delivered = <<>>
            /\ calls[i].put = 0
            /\ hist[i].wrote = <<>>
            /\ AppendsOf(hist[i].event) = <<>>

\* C6 witness: the model call of an invocation failed while its key holds
\* turns of another invocation
C6_Witness ==
    \E i \in Invocations :
        /\ hist[i].failed_at = "model"
        /\ response[i] = Error500
        /\ Partition(store, frame[i].conv_pk) # {}

\* C7: when the reply call fails the handler returns status 500 and no turn
\* of the invocation is ever written to the store.
C7_ReplyFailureLeavesNoTrace ==
    \A i \in Invocations :
        hist[i].failed_at = "reply" =>
            /\ pc[i] = "done"
            /\ response[i] = Error500
            /\ calls[i].reply = 1
            /\ hist[i].delivered = <<>>
            /\ calls[i].put = 0
            /\ hist[i].wrote = <<>>
            /\ AppendsOf(hist[i].event) = <<>>

\* C7 witness: the reply call of an invocation failed after its model call
\* had answered
C7_Witness ==
    \E i \in Invocations :
        /\ hist[i].failed_at = "reply"
        /\ response[i] = Error500
        /\ calls[i].model = 1
        /\ frame[i].ai_text = Answer

PersistStages == {"save_user", "save_assistant"}

\* C8 as stated: status 500 means no reply was delivered, and a delivered
\* reply means status 200 "ok", whatever the stage that failed.
C8_FailureMeansNoReply ==
    \A i \in Invocations :
        /\ response[i] = Error500 => hist[i].delivered = <<>>
        /\ (pc[i] = "done" /\ hist[i].delivered # <<>>) => response[i] = ok("ok")

\* C8 as amended: status 500 from a failure before the persist stage means no
\* reply was delivered; a delivered reply means status 200 "ok" or a status
\* 500 caused by a failed store write of the persist stage.
C8_FailureBeforePersistMeansNoReply ==
    \A i \in Invocations :
        /\ (response[i] = Error500 /\ hist[i].failed_at \notin PersistStages) =>
                hist[i].delivered = <<>>
        /\ (pc[i] = "done" /\ hist[i].delivered # <<>>) =>
                \/ response[i] = ok("ok")
                \/ response[i] = Error500 /\ hist[i].failed_at \in PersistStages

\* C8 witness: a store write failed after the reply was delivered
C8_Witness ==
    \E i \in Invocations :
        /\ response[i] = Error500
        /\ hist[i].failed_at \in PersistStages
        /\ hist[i].delivered = <<frame[i].ai_text>>

AllStages ==
    <<"parse", "load", "assemble", "model", "reply", "save_user", "save_assistant">>

\* C9: the stages of an invocation of the history-enabled handler complete in
\* the order load, assemble, model, reply, append user, append assistant; a
\* call is made only when every earlier stage has completed; no call is made
\* twice; a Completed invocation made one full read, one model call, one reply
\* call and two appends.
C9_StagesInOrderOnce ==
    \A i \in Invocations :
        Dynamo(i) =>
            LET c == calls[i]
                n == Len(hist[i].stages)
            IN  /\ IsPrefix(hist[i].stages, AllStages)
                /\ c.load <= 1 /\ c.model <= 1 /\ c.reply <= 1 /\ c.put <= 2
                /\ c.load > 0 => n >= 1
                /\ c.model > 0 => n >= 3
                /\ c.reply > 0 => n >= 4
                /\ c.put > 0 => n >= 5
                /\ c.put > 1 => n >= 6
                /\ hist[i].failed_at # "" => (pc[i] = "done" /\ response[i] = Error500)
                /\ Completed(i) =>
                        /\ hist[i].stages = AllStages
                        /\ hist[i].failed_at = ""
                        /\ c.load = 1 /\ c.model = 1 /\ c.reply = 1 /\ c.put = 2
                        /\ Len(hist[i].delivered) = 1 /\ Len(hist[i].wrote) = 2

\* C9 witness: an invocation completed after a load of more than one query
C9_Witness ==
    \E i \in Invocations :
        /\ Dynamo(i) /\ Completed(i)
        /\ calls[i].query >= 2
        /\ hist[i].stages = AllStages

\* the first candidate that is neither None nor "", or the last candidate
RECURSIVE FirstNonEmpty(_)
FirstNonEmpty(cands) ==
    IF Len(cands) = 1 \/ Head(cands) \notin {None, ""}
    THEN Head(cands) ELSE FirstNonEmpty(Tail(cands))

\* C10: the conversation key is the first non-empty value among the user,
\* group and room identities and the reply token, in that order (so it depends
\* on the identities alone when one of them is non-empty, and is the reply
\* token when none is); every stored turn has a non-empty key.
C10_KeyIsFirstNonEmptyIdentity ==
    /\ \A i \in Invocations :
        (Dynamo(i) /\ pc[i] = "parsed") =>
            LET ev == frame[i].ev IN
            frame[i].conv_pk =
                FirstNonEmpty(<<ev.userId, ev.groupId, ev.roomId, ev.replyToken>>)
    /\ \A i \in Invocations :
        (Dynamo(i) /\ pc[i] \notin {"parsed", "done"}) =>
            frame[i].conv_pk \notin {None, ""}
    /\ \A x \in store : x.pk \notin {None, ""}
    /\ \A k \in 1..Len(log) : log[k].item.pk \notin {None, ""}

\* C10 witness: an event with an empty user identity, no group identity and
\* a room identity was given the room identity as its key
C10_Witness ==
    \E i \in Invocations :
        /\ Dynamo(i) /\ pc[i] = "parsed"
        /\ frame[i].ev.userId = "" /\ frame[i].ev.groupId = None
        /\ frame[i].ev.roomId = "R1"
        /\ frame[i].conv_pk = "R1"

\* the list the model must be given for a history and a new text: the turns of
\* the history that have a text, in their order, each with its role if that is
\* user or assistant and with user otherwise, then the new text as a user turn
ExpectedMessages(history, user_text) ==
    LET has_text(t) == t.text # <<>>
        kept == SelectSeq(history, has_text)
        entry(role, text) == [role |-> role, content |-> <<[type |-> "text", text |-> text]>>]
    IN  [k \in 1..Len(kept) + 1 |->
            IF k <= Len(kept)
            THEN entry(IF kept[k].role \in {"user", "assistant"} THEN kept[k].role ELSE "user",
                       kept[k].text)
            ELSE entry("user", user_text)]

\* C11: once the history is loaded, the message list of the invocation is the
\* loaded turns in their order, without the turns of empty text, with every
\* role other than user and assistant replaced by user, followed by one user
\* message holding the new text: nothing else is dropped, repeated or moved.
C11_MessagesAreHistoryThenNewText ==
    \A i \in Invocations :
        (Dynamo(i) /\ "load" \in { hist[i].stages[k] : k \in 1..Len(hist[i].stages) }) =>
            /\ frame[i].history_turns = Project(frame[i].items)
            /\ frame[i].messages =
                    ExpectedMessages(frame[i].history_turns, frame[i].user_text)

\* a loaded history with a turn of empty text and a turn of a foreign role
C11_Witness ==
    \E i \in Invocations :
        /\ Dynamo(i) /\ pc[i] = "model"
        /\ \E k \in 1..Len(frame[i].items) : frame[i].items[k].text \in {<<>>, NoText}
        /\ \E k \in 1..Len(frame[i].items) : frame[i].items[k].role \in {"system", "", None}
        /\ Len(frame[i].messages) = 2

\* the empty or malformed response bodies: no content list, an empty content
\* list, a first element that is not an object, a first element with no text
EmptyOrMalformed(data) ==
    \/ ~data.has_content
    \/ data.content = <<>>
    \/ ~data.content[1].is_dict
    \/ data.content[1].text = NoText

\* C12: in either handler, after the model call returned an empty or malformed
\* response body, the answer is the fixed placeholder and the invocation goes
\* on to the reply stage: it has not failed and does not return status 500
\* because of that response.
C12_MalformedResponseGivesPlaceholder ==
    \A i \in Invocations :
        (Running(i) /\ hist[i].body # <<>> /\ EmptyOrMalformed(hist[i].body[1])) =>
            /\ frame[i].ai_text = Placeholder
            /\ hist[i].failed_at # "slice"
            /\ pc[i] = "reply" => response[i] = NoResponse

\* the stages a handler of the variant records when it runs to the end
CompletedStages(variant) ==
    IF variant = "dynamo"
    THEN <<"parse", "load", "assemble", "model", "reply", "save_user", "save_assistant">>
    ELSE <<"parse", "model", "reply">>

\* an invocation that has not returned can take a step of the handler
CanStep(i) ==
    ENABLED (\/ Guard(i) \/ Query(i) \/ ReplyLine(i) \/ SaveUser(i) \/ SaveAssistant(i)
             \/ \E data \in GoodBodies \cup MalformedBodies : AskBedrock(i, data))

\* C13: an invocation never ends without a response: it is still able to step,
\* or it has returned status 200 or 500.  Every failure (store read, model call,
\* reply call, store write, an unparsable event, an answer that cannot be
\* sliced) has been turned into status 500, and status 200 is returned only
\* when the event was skipped ("no text", nothing but the parse done) or when
\* every stage of the pipeline completed ("ok").
C13_Returns200Or500 ==
    \A i \in Invocations : Running(i) =>
        /\ response[i].statusCode \in {0, 200, 500}
        /\ (pc[i] = "done") <=> (response[i].statusCode \in {200, 500})
        /\ pc[i] # "done" => CanStep(i)
        /\ hist[i].failed_at # "" => (pc[i] = "done" /\ response[i] = Error500)
        /\ response[i].statusCode = 500 => hist[i].failed_at # ""
        /\ response[i].statusCode = 200 =>
                \/ response[i] = ok("no text") /\ hist[i].stages = <<"parse">>
                \/ response[i] = ok("ok")
                        /\ hist[i].stages = CompletedStages(frame[i].variant)

\* an unexpected error (the answer has no text to slice) was returned as 500
C13_Witness ==
    \E i \in Invocations :
        /\ pc[i] = "done" /\ response[i] = Error500
        /\ hist[i].failed_at = "slice"

\* the append of the turn of role `role` made while handling event n is in the
\* log at position k and the item it stored is still in the table
VisibleAt(k, n, role) ==
    /\ log[k].event = n /\ log[k].item.role = role
    /\ log[k].item \in store

\* C14: while nothing has expired, whenever the assistant turn an invocation
\* appended is in the table, the user turn the same invocation appended is in
\* the table too, with a smaller sort key; and an invocation whose second
\* append failed has left its user turn in the table and no assistant turn.
C14_AssistantTurnImpliesUserTurn ==
    ~expired =>
        /\ \A a \in 1..Len(log) : \A n \in 1..started :
                VisibleAt(a, n, "assistant") =>
                    \E u \in 1..Len(log) :
                        /\ VisibleAt(u, n, "user")
                        /\ log[u].item.sk < log[a].item.sk
        /\ \A i \in Invocations :
                (Dynamo(i) /\ hist[i].failed_at = "save_assistant") =>
                    /\ \E u \in 1..Len(log) : VisibleAt(u, hist[i].event, "user")
                    /\ ~\E a \in 1..Len(log) : log[a].event = hist[i].event
                                                 /\ log[a].item.role = "assistant"

\* C15: no invocation waits for another one: whatever stage the other
\* invocations of the same key are in, an invocation that is at a stage can
\* run the call of that stage.  (The interleaving the claim describes is the
\* state C15_Witness.)
C15_NoLockBetweenInvocations ==
    \A i \in Invocations : Dynamo(i) =>
        /\ pc[i] = "load" => ENABLED Query(i)
        /\ pc[i] = "model" => ENABLED (\E data \in GoodBodies : AskBedrock(i, data))
        /\ pc[i] = "reply" => ENABLED ReplyLine(i)
        /\ pc[i] = "save_user" => ENABLED SaveUser(i)
        /\ pc[i] = "save_assistant" => ENABLED SaveAssistant(i)

\* two invocations A and B of one key have both completed; each loaded an empty
\* history, and the partition reads user A, user B, assistant A, assistant B
C15_Witness ==
    \E a, b \in Invocations :
        /\ a # b /\ Completed(a) /\ Completed(b)
        /\ frame[a].conv_pk = frame[b].conv_pk
        /\ frame[a].history_turns = <<>> /\ frame[b].history_turns = <<>>
        /\ Len(frame[a].messages) = 1 /\ Len(frame[b].messages) = 1
        /\ LET items == SortBySk(Partition(store, frame[a].conv_pk)) IN
            /\ Len(items) = 4
            /\ items = <<hist[a].wrote[1], hist[b].wrote[1],
                         hist[a].wrote[2], hist[b].wrote[2]>>
            /\ <<items[1].role, items[2].role, items[3].role, items[4].role>>
                    = <<"user", "user", "assistant", "assistant">>

\* what a sequence of appends leaves in a partition that was empty: each
\* appended item, unless a later append of the sequence has its sort key
AloneResult(wrote) ==
    { wrote[k] : k \in { n \in 1..Len(wrote) :
                            ~\E m \in n + 1..Len(wrote) : wrote[m].sk = wrote[n].sk } }

\* C16: when every invocation serves a key of its own, an invocation loads and
\* stores only items of its key, and whatever the other invocation does in
\* between, the context it sends to the model and (while nothing has expired)
\* the content of its partition are what it produces when it runs alone on
\* the empty table: the new text only, and its own appends only.
C16_DistinctKeysAreIndependent ==
    \A i \in Invocations : (Dynamo(i) /\ pc[i] # "parsed") =>
        LET f == frame[i]
            h == hist[i]
        IN
        /\ \A k \in 1..Len(f.items) : f.items[k].pk = f.conv_pk
        /\ \A k \in 1..Len(h.wrote) : h.wrote[k].pk = f.conv_pk
        /\ "load" \in { h.stages[k] : k \in 1..Len(h.stages) } =>
                /\ f.history_turns = <<>>
                /\ f.messages = <<[role |-> "user",
                                   content |-> <<[type |-> "text", text |-> f.user_text]>>]>>
        /\ ~expired => { x \in store : x.pk = f.conv_pk } = AloneResult(h.wrote)

\* the appends of two invocations of different keys are interleaved
C16_Witness ==
    /\ Completed(1) /\ Completed(2)
    /\ frame[1].conv_pk # frame[2].conv_pk
    /\ ~expired
    /\ hist[1].wrote[1].sk < hist[2].wrote[1].sk
    /\ hist[2].wrote[1].sk < hist[1].wrote[2].sk
    /\ hist[1].wrote[2].sk < hist[2].wrote[2].sk
    /\ Cardinality(store) = 4

\* C17: a page query of _load_all_history, successful or not, leaves the table
\* as it is; a load begins with no items and no cursor, whatever the instance
\* loaded before; and a load of a partition that has not changed since the
\* instance's previous load of it began returns the sequence that load returned.
C17_LoadIsPureAndRestartable ==
    [][\A i \in Invocations :
        /\ calls'[i].query > calls[i].query => (store' = store /\ log' = log)
        /\ (pc[i] # "load" /\ pc'[i] = "load") =>
                /\ frame'[i].items = <<>>
                /\ frame'[i].last_evaluated_key = <<>>
                /\ calls'[i].query = 0
        /\ (pc[i] = "load" /\ pc'[i] = After("dynamo", "load")
                /\ ~hist[i].dirty /\ hist[i].prev # <<>>
                /\ hist[i].prev[1].pk = frame[i].conv_pk) =>
                /\ frame'[i].items = hist[i].prev[1].items
                /\ frame'[i].history_turns = Project(hist[i].prev[1].items)
      ]_vars

\* the second load in a row of an unchanged partition of two items has ended,
\* after more than one page query
C17_Witness ==
    \E i \in Invocations :
        /\ Dynamo(i) /\ pc[i] = "model"
        /\ hist[i].prev # <<>> /\ hist[i].prev[1].n = 2
        /\ Len(frame[i].items) = 2
        /\ calls[i].query > 1

Done(h, name) == name \in { h.stages[k] : k \in 1..Len(h.stages) }

\* C18: the loop of _load_all_history goes on exactly while the last response
\* carried a cursor, and after q page queries it holds at least q - 1 items,
\* not counting the pages that came back empty with the cursor unmoved: over a
\* finite partition whose pages advance the cursor it ends.  The context is
\* assembled and the model is called only after the loop has ended; a load
\* that failed at any page returns status 500, and neither the items of the
\* pages read before nor any message list has been handed to the model.
C18_LoadCompletesBeforeAssembly ==
    \A i \in Invocations : Dynamo(i) =>
        LET f == frame[i]
            h == hist[i]
        IN
        /\ calls[i].query <= Len(f.items) + h.empty_pages + 1
        /\ (pc[i] = "load" /\ calls[i].query > 0) => f.last_evaluated_key # <<>>
        /\ Done(h, "load") => (f.last_evaluated_key = <<>> /\ calls[i].query > 0)
        /\ (Done(h, "assemble") \/ calls[i].model > 0 \/ f.messages # <<>>
                \/ f.history_turns # <<>>) => Done(h, "load")
        /\ h.failed_at = "load" =>
                /\ pc[i] = "done" /\ response[i] = Error500
                /\ ~Done(h, "load")
                /\ calls[i].model = 0 /\ f.messages = <<>> /\ f.history_turns = <<>>

\* a load failed at its second page query, after a first page that brought an item
C18_Witness ==
    \E i \in Invocations :
        /\ Dynamo(i) /\ hist[i].failed_at = "load"
        /\ calls[i].query = 2
        /\ frame[i].items # <<>>

\* C19: a load during which items of the key were put or removed still ends
\* normally: at every point of it a page query can be answered, and the items
\* it returns are in strictly increasing sort-key order, none of them twice,
\* and include every item that was in the partition from the beginning of the
\* load to its last page query.
C19_LoadToleratesConcurrentChange ==
    [][\A i \in Invocations :
        /\ pc[i] = "load" => ENABLED Query(i)
        /\ (pc[i] = "load" /\ pc'[i] = After("dynamo", "load")) =>
                LET items == frame'[i].items IN
                /\ StrictlyAscending(items)
                /\ \A a, b \in 1..Len(items) : items[a] = items[b] => a = b
                /\ hist[i].stable \subseteq { items[k] : k \in 1..Len(items) }
                /\ frame'[i].history_turns = Project(items)
      ]_vars

\* a load has ended during which, between two of its page queries, an item
\* was put and an item expired; it returned an item that lasted and one that
\* did not
C19_Witness ==
    \E i \in Invocations :
        /\ Dynamo(i) /\ pc[i] = "model"
        /\ hist[i].appended /\ hist[i].removed
        /\ \E k \in 1..Len(frame[i].items) : frame[i].items[k] \in store
        /\ \E k \in 1..Len(frame[i].items) : frame[i].items[k] \notin store

====
